---- MODULE Spec2Model ----
(***************************************************************************)
(* h2conn: a full-duplex connection over one HTTP/2 request/response.      *)
(* The model covers Server.Accept and the flushWrite adapter (server.go)   *)
(* and Conn (Read, Write, Close, LocalAddr, RemoteAddr), together with the *)
(* environment they run against: the response sink, the request body, the  *)
(* request's context and the peer.                                         *)
(*                                                                         *)
(* Callers are modelled by their calls: call c is the c-th invocation of   *)
(* Read, Write or Close on the Connection, each made by its own goroutine, *)
(* so any number of calls up to MaxCalls may be in flight together.        *)
(***************************************************************************)
EXTENDS Integers, Sequences, FiniteSets, TLC

\* ---------------------------------------------------------------- bounds
\* calls made on the Connection
MaxCalls == 3
\* longest buffer handed to Write or Read
MaxLen == 2
\* bytes the peer sends on the request body
MaxIn == 2

\* ------------------------------------------------------------- constants
\* http.StatusOK, the status of defaultUpgrader
StatusOK == 200

Calls == 1..MaxCalls

\* the inbound byte stream the peer sends and then closes: byte i of the request
\* body is i
InStream == [i \in 1..MaxIn |-> i]

\* the payload of call c of length n: its bytes are tagged with the call
Payload(c, n) == [i \in 1..n |-> <<c, i>>]

\* values of Server.StatusCode
StatusCodes == {StatusOK, 201}

\* request protocol versions, <<major, minor>>
Protos == {<<1, 1>>, <<2, 0>>}

\* address strings, as token sequences host ":" port
PeerAddrString == <<"10.0.0.2", ":", "5000">>
HostAddrString == <<"10.0.0.1", ":", "443">>
NoPortString == <<"example.com">>
RemoteAddrStrings == {PeerAddrString, NoPortString}
HostStrings == {HostAddrString, NoPortString}

Min(a, b) == IF a < b THEN a ELSE b

\* --------------------------------------------------------- pure functions
\* http.Request.ProtoAtLeast(major, minor)
ProtoAtLeast(p, major, minor) ==
    p[1] > major \/ (p[1] = major /\ p[2] >= minor)

PortNum(t) ==
    CASE t = "443" -> 443
      [] t = "5000" -> 5000
      [] OTHER -> -1

NoAddr == [IP |-> "", Port |-> 0]
NoConAddr == [remoteAddr |-> NoAddr, localAddr |-> NoAddr]

\* net.ResolveTCPAddr("tcp", s): split host and port, both must parse
ResolveTCPAddr(s) ==
    IF Len(s) = 3 /\ s[2] = ":" /\ PortNum(s[3]) >= 0
    THEN [err |-> FALSE, addr |-> [IP |-> s[1], Port |-> PortNum(s[3])]]
    ELSE [err |-> TRUE, addr |-> NoAddr]

\* newConAddr(localAddr, remoteAddr): resolves remoteAddr first, then localAddr
newConAddr(localAddr, remoteAddr) ==
    LET remoteAddrTCP == ResolveTCPAddr(remoteAddr)
        localAddrTCP == ResolveTCPAddr(localAddr)
    IN  IF remoteAddrTCP.err THEN [err |-> TRUE, ca |-> NoConAddr]
        ELSE IF localAddrTCP.err THEN [err |-> TRUE, ca |-> NoConAddr]
        ELSE [err |-> FALSE,
              ca |-> [remoteAddr |-> remoteAddrTCP.addr, localAddr |-> localAddrTCP.addr]]

\* A package-level upgrader left at the zero value of Server
zeroUpgrader == [StatusCode |-> 0]

defaultUpgrader == [StatusCode |-> StatusOK]

\* ------------------------------------------------------------------ state
VARIABLES
    \* the request and the sink handed to Accept
    proto,          \* r.Proto as <<major, minor>>
    flushable,      \* whether w implements http.Flusher
    rRemoteAddr,    \* r.RemoteAddr
    rHost,          \* r.Host
    entry,          \* "server": u.Accept, "package": h2conn.Accept
    u,              \* the Server Accept runs on
    \* Accept
    hpc,            \* position of the handler inside Accept
    acceptErr,      \* error returned by Accept
    retConn,        \* whether Accept returned a Connection
    addrs,          \* result of newConAddr
    \* contexts
    reqCtx,         \* context the request carries: "parent" or "child"
    childDerived,   \* context.WithCancel(parent) has run
    parentCancelled,
    childCancelled,
    cancelCalls,    \* invocations of c.cancel
    closeCalls,     \* invocations of c.wc.Close
    \* Conn
    ca,             \* c.ca
    wLock,          \* c.wLock is locked
    rLock,          \* c.rLock is locked
    \* response sink
    sinkLog,        \* calls made on the sink, in order
    sinkBuf,        \* body bytes written and not yet flushed
    wire,           \* body bytes flushed to the peer
    \* request body
    rpos,           \* bytes of InStream consumed from the body
    delivered,      \* bytes returned by Read calls, in order of return
    \* calls on the Connection
    kind,           \* "none", "Write", "Read" or "Close"
    pc,             \* position of the call
    wdata,          \* payload of a Write
    wn,             \* bytes the underlying write has written
    werr,           \* the underlying write failed
    rd,             \* what the underlying read has taken
    ret             \* what the call returned to its caller

reqVars == <<proto, flushable, rRemoteAddr, rHost, entry, u>>
acceptVars == <<hpc, acceptErr, retConn, addrs>>
ctxVars == <<reqCtx, childDerived, parentCancelled, childCancelled>>
closeVars == <<cancelCalls, closeCalls>>
connVars == <<ca, wLock, rLock>>
sinkVars == <<sinkLog, sinkBuf, wire>>
bodyVars == <<rpos, delivered>>
callVars == <<kind, pc, wdata, wn, werr, rd, ret>>

vars == <<reqVars, acceptVars, ctxVars, closeVars, connVars, sinkVars, bodyVars, callVars>>

NoRead == [from |-> 0, n |-> 0, err |-> "nil"]
NoRet == [op |-> "none", n |-> 0, err |-> "nil"]

Init ==
    /\ proto \in Protos
    /\ flushable \in BOOLEAN
    /\ rRemoteAddr \in RemoteAddrStrings
    /\ rHost \in HostStrings
    /\ entry \in {"server", "package"}
    /\ u \in IF entry = "package" THEN {defaultUpgrader}
             ELSE {[StatusCode |-> c] : c \in StatusCodes}
    /\ hpc = "proto"
    /\ acceptErr = "nil"
    /\ retConn = FALSE
    /\ addrs = NoConAddr
    /\ reqCtx = "parent"
    /\ childDerived = FALSE
    /\ parentCancelled = FALSE
    /\ childCancelled = FALSE
    /\ cancelCalls = 0
    /\ closeCalls = 0
    /\ ca = NoConAddr
    /\ wLock = FALSE
    /\ rLock = FALSE
    /\ sinkLog = <<>>
    /\ sinkBuf = <<>>
    /\ wire = <<>>
    /\ rpos = 0
    /\ delivered = <<>>
    /\ kind = [c \in Calls |-> "none"]
    /\ pc = [c \in Calls |-> "new"]
    /\ wdata = [c \in Calls |-> <<>>]
    /\ wn = [c \in Calls |-> 0]
    /\ werr = [c \in Calls |-> FALSE]
    /\ rd = [c \in Calls |-> NoRead]
    /\ ret = [c \in Calls |-> NoRet]

\* ----------------------------------------------------------------- Accept
\* server.go:44-46  if !r.ProtoAtLeast(2, 0) { return nil, ErrHTTP2NotSupported }
AcceptProto ==
    /\ hpc = "proto"
    /\ IF ~ProtoAtLeast(proto, 2, 0)
       THEN hpc' = "returned" /\ acceptErr' = "ErrHTTP2NotSupported"
       ELSE hpc' = "flusher" /\ UNCHANGED acceptErr
    /\ UNCHANGED <<reqVars, retConn, addrs, ctxVars, closeVars, connVars, sinkVars,
                   bodyVars, callVars>>

\* mutant: the sink is used without the check that it can flush
AcceptFlusherNoCheck ==
    /\ hpc = "flusher"
    /\ hpc' = "resolve"
    /\ UNCHANGED <<reqVars, acceptErr, retConn, addrs, ctxVars, closeVars, connVars, sinkVars,
                   bodyVars, callVars>>

\* server.go:47-50  flusher, ok := w.(http.Flusher)
AcceptFlusher ==
    /\ hpc = "flusher"
    /\ IF ~flushable
       THEN hpc' = "returned" /\ acceptErr' = "ErrHTTP2NotSupported"
       ELSE hpc' = "resolve" /\ UNCHANGED acceptErr
    /\ UNCHANGED <<reqVars, retConn, addrs, ctxVars, closeVars, connVars, sinkVars,
                   bodyVars, callVars>>

\* mutant: the error of newConAddr is dropped
AcceptResolveIgnoreErr ==
    /\ hpc = "resolve"
    /\ hpc' = "newConn"
    /\ addrs' = newConAddr(rRemoteAddr, rHost).ca
    /\ UNCHANGED <<reqVars, acceptErr, retConn, ctxVars, closeVars, connVars, sinkVars,
                   bodyVars, callVars>>

\* server.go:51-54  addrs, err := newConAddr(r.RemoteAddr, r.Host)
AcceptResolve ==
    /\ hpc = "resolve"
    /\ LET res == newConAddr(rRemoteAddr, rHost)
       IN  IF res.err
           THEN hpc' = "returned" /\ acceptErr' = "AddrError" /\ UNCHANGED addrs
           ELSE hpc' = "newConn" /\ addrs' = res.ca /\ UNCHANGED acceptErr
    /\ UNCHANGED <<reqVars, retConn, ctxVars, closeVars, connVars, sinkVars,
                   bodyVars, callVars>>

\* A Connection built on the request's context itself, no child derived
AcceptNewConnNoChild ==
    /\ hpc = "newConn"
    /\ hpc' = "withContext"
    /\ ca' = addrs
    /\ wLock' = FALSE
    /\ rLock' = FALSE
    /\ UNCHANGED <<reqVars, acceptErr, retConn, addrs, ctxVars,
                   closeVars, sinkVars, bodyVars, callVars>>

\* server.go:56 and conn.go:24-32  newConn: derive the child context, build the Conn
AcceptNewConn ==
    /\ hpc = "newConn"
    /\ hpc' = "withContext"
    /\ childDerived' = TRUE
    /\ childCancelled' = parentCancelled
    /\ ca' = addrs
    /\ wLock' = FALSE
    /\ rLock' = FALSE
    /\ UNCHANGED <<reqVars, acceptErr, retConn, addrs, reqCtx, parentCancelled,
                   closeVars, sinkVars, bodyVars, callVars>>

\* mutant: the request keeps the context it came with
AcceptKeepContext ==
    /\ hpc = "withContext"
    /\ hpc' = "writeHeader"
    /\ UNCHANGED <<reqVars, acceptErr, retConn, addrs, ctxVars, closeVars, connVars,
                   sinkVars, bodyVars, callVars>>

\* server.go:60  *r = *r.WithContext(ctx)
AcceptWithContext ==
    /\ hpc = "withContext"
    /\ hpc' = "writeHeader"
    /\ reqCtx' = "child"
    /\ UNCHANGED <<reqVars, acceptErr, retConn, addrs, childDerived, parentCancelled,
                   childCancelled, closeVars, connVars, sinkVars, bodyVars, callVars>>

\* server.go:62  w.WriteHeader(u.StatusCode)
AcceptWriteHeader ==
    /\ hpc = "writeHeader"
    /\ hpc' = "flush"
    /\ sinkLog' = Append(sinkLog, [op |-> "header", by |-> 0, code |-> u.StatusCode])
    /\ UNCHANGED <<reqVars, acceptErr, retConn, addrs, ctxVars, closeVars, connVars,
                   sinkBuf, wire, bodyVars, callVars>>

\* mutant: Accept returns without flushing the status
AcceptNoFlush ==
    /\ hpc = "flush"
    /\ hpc' = "returned"
    /\ retConn' = TRUE
    /\ UNCHANGED <<reqVars, acceptErr, addrs, ctxVars, closeVars, connVars, sinkVars,
                   bodyVars, callVars>>

\* server.go:63-65  flusher.Flush(); return c, nil
AcceptFlush ==
    /\ hpc = "flush"
    /\ hpc' = "returned"
    /\ retConn' = TRUE
    /\ sinkLog' = Append(sinkLog, [op |-> "flush", by |-> 0, code |-> 0])
    /\ wire' = wire \o sinkBuf
    /\ sinkBuf' = <<>>
    /\ UNCHANGED <<reqVars, acceptErr, addrs, ctxVars, closeVars, connVars,
                   bodyVars, callVars>>

Accept ==
    \/ AcceptProto
    \/ AcceptFlusher
    \/ AcceptResolve
    \/ AcceptNewConn
    \/ AcceptWithContext
    \/ AcceptWriteHeader
    \/ AcceptFlush

\* the next call made on the Connection is call c
IsNext(c) ==
    /\ retConn
    /\ kind[c] = "none"
    /\ \A d \in Calls : d < c => kind[d] # "none"

\* ------------------------------------------------------------- Conn.Write
\* a goroutine invokes c.Write(data), len(data) = n
WriteCall(c, n) ==
    /\ IsNext(c)
    /\ kind' = [kind EXCEPT ![c] = "Write"]
    /\ pc' = [pc EXCEPT ![c] = "wLock"]
    /\ wdata' = [wdata EXCEPT ![c] = Payload(c, n)]
    /\ UNCHANGED <<reqVars, acceptVars, ctxVars, closeVars, connVars, sinkVars, bodyVars,
                   wn, werr, rd, ret>>

\* mutant: Write does not take the write guard
WriteNoLock(c) ==
    /\ pc[c] = "wLock"
    /\ wLock' = TRUE
    /\ pc' = [pc EXCEPT ![c] = "wWrite"]
    /\ sinkLog' = Append(sinkLog, [op |-> "write", by |-> c, code |-> 0])
    /\ UNCHANGED <<reqVars, acceptVars, ctxVars, closeVars, ca, rLock,
                   sinkBuf, wire, bodyVars, kind, wdata, wn, werr, rd, ret>>

\* A Write with a closed check: once the context is cancelled it returns an
\* error of its own without taking the guard or calling the sink
WriteLockClosedCheck(c) ==
    /\ pc[c] = "wLock"
    /\ IF childCancelled
       THEN /\ pc' = [pc EXCEPT ![c] = "done"]
            /\ ret' = [ret EXCEPT ![c] = [op |-> "Write", n |-> 0, err |-> "closed"]]
            /\ UNCHANGED <<wLock, sinkLog>>
       ELSE /\ ~wLock
            /\ wLock' = TRUE
            /\ pc' = [pc EXCEPT ![c] = "wWrite"]
            /\ sinkLog' = Append(sinkLog, [op |-> "write", by |-> c, code |-> 0])
            /\ UNCHANGED ret
    /\ UNCHANGED <<reqVars, acceptVars, ctxVars, closeVars, ca, rLock,
                   sinkBuf, wire, bodyVars, kind, wdata, wn, werr, rd>>

\* conn.go:36,38  c.wLock.Lock(); c.wc.Write(data) enters w.w.Write(data) (server.go:97)
WriteLock(c) ==
    /\ pc[c] = "wLock"
    /\ ~wLock
    /\ wLock' = TRUE
    /\ pc' = [pc EXCEPT ![c] = "wWrite"]
    /\ sinkLog' = Append(sinkLog, [op |-> "write", by |-> c, code |-> 0])
    /\ UNCHANGED <<reqVars, acceptVars, ctxVars, closeVars, ca, rLock,
                   sinkBuf, wire, bodyVars, kind, wdata, wn, werr, rd, ret>>

\* server.go:97  the sink takes the next byte of data
SinkWriteByte(c) ==
    /\ pc[c] = "wWrite"
    /\ ~werr[c]
    /\ wn[c] < Len(wdata[c])
    /\ sinkBuf' = Append(sinkBuf, wdata[c][wn[c] + 1])
    /\ wn' = [wn EXCEPT ![c] = wn[c] + 1]
    /\ UNCHANGED <<reqVars, acceptVars, ctxVars, closeVars, connVars,
                   sinkLog, wire, bodyVars, kind, pc, wdata, werr, rd, ret>>

\* server.go:97  the sink fails (transport gone): w.w.Write returns (n, err), err != nil
SinkWriteFail(c) ==
    /\ pc[c] = "wWrite"
    /\ ~werr[c]
    /\ werr' = [werr EXCEPT ![c] = TRUE]
    /\ UNCHANGED <<reqVars, acceptVars, ctxVars, closeVars, connVars, sinkVars, bodyVars,
                   kind, pc, wdata, wn, rd, ret>>

\* mutant: the adapter returns after the write without flushing
FlushWriteNoFlush(c) ==
    /\ pc[c] = "wWrite"
    /\ werr[c] \/ wn[c] = Len(wdata[c])
    /\ pc' = [pc EXCEPT ![c] = "wRet"]
    /\ UNCHANGED <<reqVars, acceptVars, ctxVars, closeVars, connVars, sinkVars,
                   bodyVars, kind, wdata, wn, werr, rd, ret>>

\* A flushWrite.Write that returns early on a write error, flushing only after
\* a successful write
FlushWriteFlushOnSuccess(c) ==
    /\ pc[c] = "wWrite"
    /\ werr[c] \/ wn[c] = Len(wdata[c])
    /\ pc' = [pc EXCEPT ![c] = "wRet"]
    /\ IF werr[c]
       THEN UNCHANGED sinkVars
       ELSE /\ sinkLog' = Append(sinkLog, [op |-> "flush", by |-> c, code |-> 0])
            /\ wire' = wire \o sinkBuf
            /\ sinkBuf' = <<>>
    /\ UNCHANGED <<reqVars, acceptVars, ctxVars, closeVars, connVars,
                   bodyVars, kind, wdata, wn, werr, rd, ret>>

\* server.go:98  w.f.Flush(), once w.w.Write has returned
FlushWriteFlush(c) ==
    /\ pc[c] = "wWrite"
    /\ werr[c] \/ wn[c] = Len(wdata[c])
    /\ pc' = [pc EXCEPT ![c] = "wRet"]
    /\ sinkLog' = Append(sinkLog, [op |-> "flush", by |-> c, code |-> 0])
    /\ wire' = wire \o sinkBuf
    /\ sinkBuf' = <<>>
    /\ UNCHANGED <<reqVars, acceptVars, ctxVars, closeVars, connVars,
                   bodyVars, kind, wdata, wn, werr, rd, ret>>

\* server.go:99, conn.go:37-38  return n, err; deferred c.wLock.Unlock()
WriteReturn(c) ==
    /\ pc[c] = "wRet"
    /\ pc' = [pc EXCEPT ![c] = "done"]
    /\ wLock' = FALSE
    /\ ret' = [ret EXCEPT ![c] = [op |-> "Write", n |-> wn[c],
                                  err |-> IF werr[c] THEN "sinkError" ELSE "nil"]]
    /\ UNCHANGED <<reqVars, acceptVars, ctxVars, closeVars, ca, rLock, sinkVars, bodyVars,
                   kind, wdata, wn, werr, rd>>

\* -------------------------------------------------------------- Conn.Read
\* a goroutine invokes c.Read(data), len(data) = MaxLen
ReadCall(c) ==
    /\ IsNext(c)
    /\ kind' = [kind EXCEPT ![c] = "Read"]
    /\ pc' = [pc EXCEPT ![c] = "rLock"]
    /\ UNCHANGED <<reqVars, acceptVars, ctxVars, closeVars, connVars, sinkVars, bodyVars,
                   wdata, wn, werr, rd, ret>>

\* mutant: Read does not take the read guard
ReadNoLock(c) ==
    /\ pc[c] = "rLock"
    /\ rLock' = TRUE
    /\ pc' = [pc EXCEPT ![c] = "rRead"]
    /\ UNCHANGED <<reqVars, acceptVars, ctxVars, closeVars, ca, wLock, sinkVars, bodyVars,
                   kind, wdata, wn, werr, rd, ret>>

\* mutant: Read takes its guard only when no Write holds the write guard (one
\* guard for both directions)
ReadLockOneGuard(c) ==
    /\ pc[c] = "rLock"
    /\ ~rLock
    /\ ~wLock
    /\ rLock' = TRUE
    /\ pc' = [pc EXCEPT ![c] = "rRead"]
    /\ UNCHANGED <<reqVars, acceptVars, ctxVars, closeVars, ca, wLock, sinkVars, bodyVars,
                   kind, wdata, wn, werr, rd, ret>>

\* conn.go:43  c.rLock.Lock()
ReadLock(c) ==
    /\ pc[c] = "rLock"
    /\ ~rLock
    /\ rLock' = TRUE
    /\ pc' = [pc EXCEPT ![c] = "rRead"]
    /\ UNCHANGED <<reqVars, acceptVars, ctxVars, closeVars, ca, wLock, sinkVars, bodyVars,
                   kind, wdata, wn, werr, rd, ret>>

\* conn.go:45  c.r.Read(data): bytes of the peer have arrived on the body, the read
\* takes 1..len(data) of them
BodyReadData(c, n) ==
    /\ pc[c] = "rRead"
    /\ n >= 1 /\ n <= Min(MaxLen, MaxIn - rpos)
    /\ rd' = [rd EXCEPT ![c] = [from |-> rpos, n |-> n, err |-> "nil"]]
    /\ pc' = [pc EXCEPT ![c] = "rRet"]
    /\ UNCHANGED <<reqVars, acceptVars, ctxVars, closeVars, connVars, sinkVars, bodyVars,
                   kind, wdata, wn, werr, ret>>

\* conn.go:45  c.r.Read(data): the body is drained and the peer has closed it
BodyReadEOF(c) ==
    /\ pc[c] = "rRead"
    /\ rpos = MaxIn
    /\ rd' = [rd EXCEPT ![c] = [from |-> rpos, n |-> 0, err |-> "EOF"]]
    /\ pc' = [pc EXCEPT ![c] = "rRet"]
    /\ UNCHANGED <<reqVars, acceptVars, ctxVars, closeVars, connVars, sinkVars, bodyVars,
                   kind, wdata, wn, werr, ret>>

\* A Read that unlocks only on the success path: an error or end-of-stream
\* from the underlying read leaves the read guard held
ReadReturnKeepOnErr(c) ==
    /\ pc[c] = "rRet"
    /\ pc' = [pc EXCEPT ![c] = "done"]
    /\ rLock' = (rd[c].err # "nil")
    /\ rpos' = rd[c].from + rd[c].n
    /\ delivered' = delivered \o SubSeq(InStream, rd[c].from + 1, rd[c].from + rd[c].n)
    /\ ret' = [ret EXCEPT ![c] = [op |-> "Read", n |-> rd[c].n, err |-> rd[c].err]]
    /\ UNCHANGED <<reqVars, acceptVars, ctxVars, closeVars, ca, wLock, sinkVars,
                   kind, wdata, wn, werr, rd>>

\* conn.go:44-45  the body's read returns (n, err); deferred c.rLock.Unlock()
ReadReturn(c) ==
    /\ pc[c] = "rRet"
    /\ pc' = [pc EXCEPT ![c] = "done"]
    /\ rLock' = FALSE
    /\ rpos' = rd[c].from + rd[c].n
    /\ delivered' = delivered \o SubSeq(InStream, rd[c].from + 1, rd[c].from + rd[c].n)
    /\ ret' = [ret EXCEPT ![c] = [op |-> "Read", n |-> rd[c].n, err |-> rd[c].err]]
    /\ UNCHANGED <<reqVars, acceptVars, ctxVars, closeVars, ca, wLock, sinkVars,
                   kind, wdata, wn, werr, rd>>

\* ------------------------------------------------------------- Conn.Close
\* a goroutine invokes c.Close()
CloseCall(c) ==
    /\ IsNext(c)
    /\ kind' = [kind EXCEPT ![c] = "Close"]
    /\ pc' = [pc EXCEPT ![c] = "cCancel"]
    /\ UNCHANGED <<reqVars, acceptVars, ctxVars, closeVars, connVars, sinkVars, bodyVars,
                   wdata, wn, werr, rd, ret>>

\* A cancel that may be run only once: a second cancellation stops the call
\* (as closing an already closed channel would)
CloseCancelOnce(c) ==
    /\ pc[c] = "cCancel"
    /\ ~childCancelled
    /\ pc' = [pc EXCEPT ![c] = "cClose"]
    /\ cancelCalls' = cancelCalls + 1
    /\ childCancelled' = TRUE
    /\ UNCHANGED <<reqVars, acceptVars, reqCtx, childDerived, parentCancelled, closeCalls,
                   connVars, sinkVars, bodyVars, kind, wdata, wn, werr, rd, ret>>

\* A cancel that aborts the Reads in flight: they return at once and give up
\* the read guard
CloseCancelUnblocks(c) ==
    /\ pc[c] = "cCancel"
    /\ pc' = [d \in Calls |-> IF d = c THEN "cClose"
                              ELSE IF pc[d] = "rRead" THEN "done" ELSE pc[d]]
    /\ rLock' = IF \E d \in Calls : pc[d] = "rRead" THEN FALSE ELSE rLock
    /\ cancelCalls' = cancelCalls + 1
    /\ childCancelled' = TRUE
    /\ UNCHANGED <<reqVars, acceptVars, reqCtx, childDerived, parentCancelled, closeCalls,
                   ca, wLock, sinkVars, bodyVars, kind, wdata, wn, werr, rd, ret>>

\* A Close that takes both guards before it cancels
CloseCancelLocked(c) ==
    /\ pc[c] = "cCancel"
    /\ ~wLock /\ ~rLock
    /\ pc' = [pc EXCEPT ![c] = "cClose"]
    /\ cancelCalls' = cancelCalls + 1
    /\ childCancelled' = TRUE
    /\ UNCHANGED <<reqVars, acceptVars, reqCtx, childDerived, parentCancelled, closeCalls,
                   connVars, sinkVars, bodyVars, kind, wdata, wn, werr, rd, ret>>

\* conn.go:62  c.cancel()
CloseCancel(c) ==
    /\ pc[c] = "cCancel"
    /\ pc' = [pc EXCEPT ![c] = "cClose"]
    /\ cancelCalls' = cancelCalls + 1
    /\ childCancelled' = TRUE
    /\ UNCHANGED <<reqVars, acceptVars, reqCtx, childDerived, parentCancelled, closeCalls,
                   connVars, sinkVars, bodyVars, kind, wdata, wn, werr, rd, ret>>

\* mutant: the write side is closed by the first Close only
CloseWCOnce(c) ==
    /\ pc[c] = "cClose"
    /\ pc' = [pc EXCEPT ![c] = "done"]
    /\ closeCalls' = IF closeCalls = 0 THEN 1 ELSE closeCalls
    /\ ret' = [ret EXCEPT ![c] = [op |-> "Close", n |-> 0, err |-> "nil"]]
    /\ UNCHANGED <<reqVars, acceptVars, ctxVars, cancelCalls,
                   connVars, sinkVars, bodyVars, kind, wdata, wn, werr, rd>>

\* server.go:102-107  flushWrite.Close: does nothing on the sink, returns nil
flushWriteClose == "nil"

\* A write-side Close that flushes the sink before returning
CloseWCFlush(c) ==
    /\ pc[c] = "cClose"
    /\ pc' = [pc EXCEPT ![c] = "done"]
    /\ closeCalls' = closeCalls + 1
    /\ sinkLog' = Append(sinkLog, [op |-> "flush", by |-> c, code |-> 0])
    /\ wire' = wire \o sinkBuf
    /\ sinkBuf' = <<>>
    /\ ret' = [ret EXCEPT ![c] = [op |-> "Close", n |-> 0, err |-> flushWriteClose]]
    /\ UNCHANGED <<reqVars, acceptVars, ctxVars, cancelCalls,
                   connVars, bodyVars, kind, wdata, wn, werr, rd>>

\* conn.go:63  return c.wc.Close()
CloseWC(c) ==
    /\ pc[c] = "cClose"
    /\ pc' = [pc EXCEPT ![c] = "done"]
    /\ closeCalls' = closeCalls + 1
    /\ ret' = [ret EXCEPT ![c] = [op |-> "Close", n |-> 0, err |-> flushWriteClose]]
    /\ UNCHANGED <<reqVars, acceptVars, ctxVars, cancelCalls,
                   connVars, sinkVars, bodyVars, kind, wdata, wn, werr, rd>>

\* ------------------------------------------------ Conn.LocalAddr/RemoteAddr
\* conn.go:50-52
LocalAddr == ca.localAddr

\* conn.go:56-58
RemoteAddr == ca.remoteAddr

\* A lifetime context not derived from the request's context: the parent's
\* cancellation does not reach it
ParentCancelNoPropagate ==
    /\ ~parentCancelled
    /\ parentCancelled' = TRUE
    /\ UNCHANGED <<reqVars, acceptVars, reqCtx, childDerived, childCancelled, closeVars,
                   connVars, sinkVars, bodyVars, callVars>>

\* ------------------------------------------------------------ environment
\* the request's original context is cancelled (client gone, timeout);
\* a context derived from it with WithCancel is cancelled with it
ParentCancel ==
    /\ ~parentCancelled
    /\ parentCancelled' = TRUE
    /\ childCancelled' = IF childDerived THEN TRUE ELSE childCancelled
    /\ UNCHANGED <<reqVars, acceptVars, reqCtx, childDerived, closeVars, connVars,
                   sinkVars, bodyVars, callVars>>

Write ==
    \E c \in Calls :
        \/ \E n \in 0..MaxLen : WriteCall(c, n)
        \/ WriteLock(c)
        \/ SinkWriteByte(c)
        \/ SinkWriteFail(c)
        \/ FlushWriteFlush(c)
        \/ WriteReturn(c)

Read ==
    \E c \in Calls :
        \/ ReadCall(c)
        \/ ReadLock(c)
        \/ \E n \in 1..MaxLen : BodyReadData(c, n)
        \/ BodyReadEOF(c)
        \/ ReadReturn(c)

Close ==
    \E c \in Calls :
        \/ CloseCall(c)
        \/ CloseCancel(c)
        \/ CloseWC(c)

Env ==
    ParentCancel

Next ==
    \/ Accept
    \/ Write
    \/ Read
    \/ Close
    \/ Env

Spec == Init /\ [][Next]_vars

\* ------------------------------------------------------------ properties
\* calls that hold the write guard: inside the sink's write or its flush
InWrite == {c \in Calls : pc[c] \in {"wWrite", "wRet"}}

\* calls that hold the read guard: inside the body's read
InRead == {c \in Calls : pc[c] \in {"rRead", "rRet"}}

\* all body bytes the sink has been given, in the order it got them
SinkBytes == wire \o sinkBuf

\* whether context x reports cancelled
Cancelled(x) == IF x = "child" THEN childCancelled ELSE parentCancelled

\* the request passes the checks Accept makes before it resolves the addresses
PassesProtocol == ProtoAtLeast(proto, 2, 0) /\ flushable

\* both address strings of the request resolve
AddrsResolve == ~ResolveTCPAddr(rRemoteAddr).err /\ ~ResolveTCPAddr(rHost).err

DoneCalls(k) == {c \in Calls : kind[c] = k /\ pc[c] = "done"}

\* the bytes the sink should hold: for each underlying write, in the order the
\* writes were entered, the part of its payload it reported as written
RECURSIVE SinkStream(_)
SinkStream(log) ==
    IF log = <<>> THEN <<>>
    ELSE (IF Head(log).op = "write"
          THEN SubSeq(wdata[Head(log).by], 1, wn[Head(log).by])
          ELSE <<>>) \o SinkStream(Tail(log))

\* C1: concurrent Writes are serialized by the write guard: at most one call is
\* inside the sink's write/flush at any instant; every underlying write is
\* followed directly by the flush of the same call (no other call's write or
\* flush comes between them); and in the sink the bytes of each payload are
\* contiguous and in payload order, never interleaved with another payload.
C1_WritesSerialized ==
    /\ Cardinality(InWrite) <= 1
    /\ wLock <=> InWrite # {}
    /\ \A i \in 1..Len(sinkLog) :
          sinkLog[i].op = "write" =>
             IF i = Len(sinkLog)
             THEN pc[sinkLog[i].by] = "wWrite"
             ELSE sinkLog[i + 1] = [op |-> "flush", by |-> sinkLog[i].by, code |-> 0]
    /\ \A i \in 1..Len(SinkBytes) :
          LET b == SinkBytes[i]
          IN  IF b[2] = 1
              THEN \A j \in 1..Len(SinkBytes) : SinkBytes[j] = b => j = i
              ELSE i > 1 /\ SinkBytes[i - 1] = <<b[1], b[2] - 1>>
    /\ \A i \in 1..Len(sinkBuf) : sinkBuf[i][1] \in InWrite

\* C1 witness: a Write is part-way through a two-byte payload inside the sink
\* while another Write with a payload waits for the write guard
C1_Witness ==
    \E c, d \in Calls :
        /\ c # d
        /\ pc[c] = "wWrite" /\ Len(wdata[c]) = 2 /\ wn[c] = 1
        /\ pc[d] = "wLock" /\ Len(wdata[d]) >= 1

\* C2: concurrent Reads are serialized by the read guard: at most one call is
\* inside the body's read at any instant, the bytes returned so far are exactly
\* the consumed prefix of the inbound stream, and every consumed byte was
\* returned by exactly one Read call.
C2_ReadsSerialized ==
    /\ Cardinality(InRead) <= 1
    /\ rLock <=> InRead # {}
    /\ delivered = SubSeq(InStream, 1, rpos)
    /\ \A c \in Calls : pc[c] = "rRet" => rd[c].from = rpos
    /\ \A i \in 1..rpos :
          Cardinality({c \in DoneCalls("Read") :
                          rd[c].from < i /\ i <= rd[c].from + rd[c].n}) = 1
    /\ \A i \in (rpos + 1)..MaxIn :
          \A c \in DoneCalls("Read") : ~(rd[c].from < i /\ i <= rd[c].from + rd[c].n)

\* C2 witness: one Read has returned the first byte, a second Read is inside
\* the body's read with the next byte, a third waits for the read guard
C2_Witness ==
    \E c, d, e \in Calls :
        /\ kind[c] = "Read" /\ pc[c] = "done" /\ rd[c].n = 1
        /\ pc[d] = "rRet" /\ rd[d].n = 1 /\ rd[d].from = 1
        /\ pc[e] = "rLock"

\* C3: Read and Write never exclude each other: whatever Writes are doing, a
\* Read waiting for a free read guard can take it, and a Read inside the
\* body's read can go on and return; and the same for Write against Reads.
C3_ReadWriteIndependent ==
    \A c \in Calls :
        /\ (pc[c] = "rLock" /\ ~rLock) => ENABLED ReadLock(c)
        /\ pc[c] = "rRead" => ENABLED (BodyReadEOF(c) \/ \E n \in 1..MaxLen : BodyReadData(c, n))
        /\ pc[c] = "rRet" => ENABLED ReadReturn(c)
        /\ (pc[c] = "wLock" /\ ~wLock) => ENABLED WriteLock(c)
        /\ pc[c] = "wWrite" =>
              ENABLED (SinkWriteByte(c) \/ SinkWriteFail(c) \/ FlushWriteFlush(c))
        /\ pc[c] = "wRet" => ENABLED WriteReturn(c)

\* C3 witness: one call is inside the body's read while another is inside the
\* sink's write with bytes still to go, and a third Read waits for the guard
C3_Witness ==
    \E c, d, e \in Calls :
        /\ pc[c] = "rRead"
        /\ pc[d] = "wWrite" /\ wn[d] < Len(wdata[d])
        /\ pc[e] = "rLock"

\* C4 as stated: once a Close has returned, over any number of Close calls the
\* context has been cancelled and the write-side close was invoked exactly once
C4_CloseInvokedOnce ==
    DoneCalls("Close") # {} => (childCancelled /\ closeCalls = 1)

\* C4 as amended: each Close call invokes the cancel function once and the
\* write-side close once, so after k Close calls the write-side close has been
\* invoked k times; the context is cancelled from the first cancel on.
C4_CloseInvokedPerCall ==
    /\ closeCalls = Cardinality(DoneCalls("Close"))
    /\ cancelCalls = Cardinality({c \in Calls : kind[c] = "Close" /\ pc[c] \in {"cClose", "done"}})
    /\ cancelCalls >= 1 => childCancelled
    /\ closeCalls <= cancelCalls

\* C4 witness: two Close calls have returned
C4_Witness ==
    Cardinality(DoneCalls("Close")) = 2 /\ closeCalls = 2

C6_AcceptSucceeds ==
    (PassesProtocol /\ AddrsResolve) =>
        /\ hpc = "returned" =>
              /\ retConn
              /\ acceptErr = "nil"
              /\ Len(sinkLog) >= 2
              /\ sinkLog[1] = [op |-> "header", by |-> 0,
                               code |-> IF entry = "package" THEN StatusOK ELSE u.StatusCode]
              /\ sinkLog[2] = [op |-> "flush", by |-> 0, code |-> 0]
              /\ \A i \in 3..Len(sinkLog) : sinkLog[i].by # 0 /\ sinkLog[i].op # "header"
        /\ hpc # "returned" =>
              /\ ~retConn
              /\ \A i \in 1..Len(sinkLog) : sinkLog[i].by = 0
              /\ sinkBuf = <<>> /\ wire = <<>>

\* C6 witness: Accept has returned a Connection on a Server configured with a
\* status other than the default, and nothing else has touched the sink
C6_Witness ==
    /\ hpc = "returned" /\ retConn /\ entry = "server" /\ u.StatusCode # StatusOK
    /\ Len(sinkLog) = 2

\* C7: for a request below HTTP/2 or a sink that cannot flush, Accept returns
\* ErrHTTP2NotSupported and no Connection, makes no call on the sink and
\* derives no context: the request keeps the context it came with.
C7_Unsupported ==
    ~PassesProtocol =>
        /\ hpc = "returned" => acceptErr = "ErrHTTP2NotSupported"
        /\ ~retConn
        /\ sinkLog = <<>> /\ sinkBuf = <<>> /\ wire = <<>>
        /\ reqCtx = "parent" /\ ~childDerived
        /\ \A c \in Calls : kind[c] = "none"

\* C7 witness: Accept has returned for an HTTP/2 request whose sink cannot flush
C7_Witness ==
    hpc = "returned" /\ ProtoAtLeast(proto, 2, 0) /\ ~flushable /\ AddrsResolve

C9_AddressesOfRequest ==
    retConn =>
        /\ RemoteAddr = ResolveTCPAddr(rRemoteAddr).addr
        /\ LocalAddr = ResolveTCPAddr(rHost).addr

\* C10: over a FIFO transport, bytes round-trip in order and whole. Outbound:
\* the sink holds, in the order the Writes took the guard, exactly the bytes each
\* underlying write reported; a Write that returned without error wrote its
\* whole payload (the empty one included); and once no Write is inside the sink
\* every byte written has been flushed to the peer. Inbound: the bytes returned
\* by the Reads, in order of return, are the consumed prefix of what the peer
\* sent, without gap or repeat.
C10_RoundTrip ==
    /\ SinkBytes = SinkStream(sinkLog)
    /\ \A c \in DoneCalls("Write") : ~werr[c] => wn[c] = Len(wdata[c])
    /\ InWrite = {} => sinkBuf = <<>>
    /\ \A c \in Calls : pc[c] = "wRet" => sinkBuf = <<>>
    /\ delivered = SubSeq(InStream, 1, Len(delivered))
    /\ Len(delivered) = rpos

\* C10 witness: a two-byte Write and an empty Write have returned without
\* error, the peer has the two bytes, and a Read has returned a byte
C10_Witness ==
    \E c, d, e \in Calls :
        /\ kind[c] = "Write" /\ pc[c] = "done" /\ ~werr[c] /\ Len(wdata[c]) = 2
        /\ kind[d] = "Write" /\ pc[d] = "done" /\ ~werr[d] /\ Len(wdata[d]) = 0
        /\ kind[e] = "Read" /\ pc[e] = "done" /\ rd[e].n >= 1
        /\ wire = wdata[c]

\* C11: Close may be called any number of times, one after another or at the
\* same time. No call is stopped: a Close that has been invoked can always take
\* its cancel step and then its close step, whatever the other calls are
\* doing. Every Close that has returned returned the result of the write
\* side's Close. The lifetime context is cancelled as soon as one cancel has
\* run and is never un-cancelled in a later state. A cancel run on an already
\* cancelled context changes nothing of the contexts, the addresses, the
\* guards, the sink or the body.
C11_CloseRepeatable ==
    /\ [](\A c \in Calls :
            /\ pc[c] = "cCancel" => ENABLED CloseCancel(c)
            /\ pc[c] = "cClose" => ENABLED CloseWC(c)
            /\ (kind[c] = "Close" /\ pc[c] = "done") =>
                   ret[c] = [op |-> "Close", n |-> 0, err |-> flushWriteClose])
    /\ [](cancelCalls >= 1 => childCancelled)
    /\ [][childCancelled => childCancelled']_vars
    /\ [][(childCancelled /\ cancelCalls' > cancelCalls) =>
               UNCHANGED <<ctxVars, connVars, sinkVars, bodyVars, reqVars, acceptVars>>]_vars

\* C11 witness: three Close calls have returned, each with the write side's
\* result, at least two of them having cancelled an already cancelled context
C11_Witness ==
    /\ \A c \in Calls : kind[c] = "Close" /\ pc[c] = "done" /\ ret[c].err = flushWriteClose
    /\ cancelCalls = MaxCalls
    /\ childCancelled

\* what Accept has done so far, as its caller and the sink see it
AcceptLog == SelectSeq(sinkLog, LAMBDA e : e.by = 0)

AcceptObs ==
    [err |-> acceptErr, conn |-> retConn, sink |-> AcceptLog, ctx |-> reqCtx,
     derived |-> childDerived]

\* what Server s's Accept has done on this sink and request when it stands at
\* stage st: returned error and Connection, calls on the sink, the request's
\* context
ServerAcceptAt(s, st) ==
    LET none == [err |-> "nil", conn |-> FALSE, sink |-> <<>>, ctx |-> "parent",
                 derived |-> FALSE]
        hdr == [op |-> "header", by |-> 0, code |-> s.StatusCode]
        fl == [op |-> "flush", by |-> 0, code |-> 0]
    IN  CASE st \in {"proto", "flusher", "resolve", "newConn"} -> none
          [] st = "withContext" -> [none EXCEPT !.derived = TRUE]
          [] st = "writeHeader" -> [none EXCEPT !.derived = TRUE, !.ctx = "child"]
          [] st = "flush" ->
                [none EXCEPT !.derived = TRUE, !.ctx = "child", !.sink = <<hdr>>]
          [] st = "returned" ->
                IF ~PassesProtocol THEN [none EXCEPT !.err = "ErrHTTP2NotSupported"]
                ELSE IF ~AddrsResolve THEN [none EXCEPT !.err = "AddrError"]
                ELSE [none EXCEPT !.derived = TRUE, !.ctx = "child", !.conn = TRUE,
                                  !.sink = <<hdr, fl>>]

\* C12: on every sink and request, the package-level Accept does at every
\* stage exactly what the Accept of Server{StatusCode: 200} does on that sink
\* and request: the same returned error or Connection, the same calls on the
\* sink in the same order, the same change of the request's context. (The
\* Accept of a Server value, entered directly, does what ServerAcceptAt says
\* for that value, so the two are compared on the same function.)
C12_PackageAcceptIsServer200 ==
    /\ entry = "package" => AcceptObs = ServerAcceptAt([StatusCode |-> StatusOK], hpc)
    /\ entry = "server" => AcceptObs = ServerAcceptAt(u, hpc)

\* C12 witness: the package-level Accept has returned a Connection after
\* writing status 200 and flushing
C12_Witness ==
    /\ entry = "package"
    /\ hpc = "returned"
    /\ retConn
    /\ AcceptLog = <<[op |-> "header", by |-> 0, code |-> StatusOK],
                     [op |-> "flush", by |-> 0, code |-> 0]>>

\* C13: in an Accept that passes its checks the effects come in this order:
\* addresses resolved, Connection constructed on a child context derived from
\* the request's context, the request's context replaced by the child, status
\* written, sink flushed. Each effect is present only if every earlier one is,
\* and at each stage the later ones have not happened yet. In particular the
\* request carries the child context whenever the sink holds the status, and
\* every payload write comes after the Accept's flush.
C13_AcceptOrder ==
    /\ childDerived => (addrs # NoConAddr /\ ca = addrs)
    /\ reqCtx = "child" => childDerived
    /\ sinkLog # <<>> =>
          (reqCtx = "child" /\ sinkLog[1] = [op |-> "header", by |-> 0, code |-> u.StatusCode])
    /\ Len(sinkLog) >= 2 => sinkLog[2] = [op |-> "flush", by |-> 0, code |-> 0]
    /\ retConn => Len(sinkLog) >= 2
    /\ \A i \in 1..Len(sinkLog) : sinkLog[i].op = "write" => i >= 3
    /\ SinkBytes # <<>> => Len(sinkLog) >= 3
    /\ hpc = "newConn" => (addrs # NoConAddr /\ ~childDerived)
    /\ hpc = "withContext" => (childDerived /\ reqCtx = "parent")
    /\ hpc = "writeHeader" => (reqCtx = "child" /\ sinkLog = <<>>)
    /\ hpc = "flush" => (Len(sinkLog) = 1 /\ ~retConn)
    /\ hpc # "returned" => \A c \in Calls : kind[c] = "none"

\* C13 witness: the status has been written and not yet flushed; the request
\* already carries the child context and no payload has been written
C13_Witness ==
    /\ hpc = "flush"
    /\ sinkLog = <<[op |-> "header", by |-> 0, code |-> u.StatusCode]>>
    /\ reqCtx = "child"
    /\ childDerived
    /\ ca = addrs
    /\ SinkBytes = <<>>

\* C14: cancelling the lifetime context, by Close or through the parent, is
\* only a signal. The step that cancels it leaves every Read and Write where
\* it is: same position, same guard state, same progress of the underlying
\* call, nothing returned. A call inside the underlying stream holds its guard
\* whether or not the context is cancelled and cannot return from there; a
\* Read or Write returns only from the position reached when the underlying
\* call has returned.
C14_CancelIsOnlySignal ==
    /\ [][(childCancelled' /\ ~childCancelled) =>
              /\ wLock' = wLock /\ rLock' = rLock
              /\ \A c \in Calls : kind[c] \in {"Read", "Write"} =>
                    /\ pc'[c] = pc[c] /\ ret'[c] = ret[c]
                    /\ rd'[c] = rd[c] /\ wn'[c] = wn[c] /\ werr'[c] = werr[c]]_vars
    /\ [](\A c \in Calls :
            /\ pc[c] = "rRead" => (rLock /\ ~ENABLED ReadReturn(c))
            /\ pc[c] = "wWrite" => (wLock /\ ~ENABLED WriteReturn(c)))
    /\ [][\A c \in Calls : (pc'[c] = "done" /\ pc[c] # "done") =>
              /\ kind[c] = "Read" => pc[c] = "rRet"
              /\ kind[c] = "Write" => pc[c] = "wRet"]_vars

\* C14 witness: the context has been cancelled by a Close while a Read and a
\* Write are inside their underlying calls, still holding their guards
C14_Witness ==
    \E c, d, e \in Calls :
        /\ kind[c] = "Close" /\ pc[c] \in {"cClose", "done"}
        /\ d < c /\ e < c
        /\ pc[d] = "rRead" /\ pc[e] = "wWrite" /\ wn[e] < Len(wdata[e])
        /\ childCancelled /\ ~parentCancelled
        /\ rLock /\ wLock

\* conn.go:61-64  a goroutine inside Close keeps running: c.cancel() returns,
\* and so does c.wc.Close() (server.go:102-107 returns at once). Nothing is
\* assumed of the Reads and Writes, whose underlying calls may block for ever.
CloseFairness == \A c \in Calls : WF_vars(CloseCancel(c)) /\ WF_vars(CloseWC(c))

CloseFairSpec == Init /\ [][Next]_vars /\ CloseFairness

\* C15: Close acquires neither guard. The steps of a Close leave both guards
\* as they are, and every Close that has been invoked cancels the context and
\* returns, also in the behaviours where a Read and a Write stay blocked inside
\* their underlying calls for ever: a Close waits on nothing but its own two
\* steps.
C15_CloseTakesNoGuard ==
    /\ [][(cancelCalls' # cancelCalls \/ closeCalls' # closeCalls) =>
              (wLock' = wLock /\ rLock' = rLock)]_vars
    /\ \A c \in Calls :
          (kind[c] = "Close" /\ pc[c] # "done") ~> (pc[c] = "done" /\ childCancelled)

\* C15 witness: a Close invoked after a Read and a Write has returned while
\* the Read and the Write are still inside their underlying calls, holding
\* both guards
C15_Witness ==
    \E c, d, e \in Calls :
        /\ kind[c] = "Close" /\ pc[c] = "done" /\ ret[c].err = flushWriteClose
        /\ d < c /\ e < c
        /\ kind[d] = "Read" /\ pc[d] = "rRead"
        /\ kind[e] = "Write" /\ pc[e] = "wWrite"
        /\ rLock /\ wLock
        /\ childCancelled

\* conn.go:35-39, server.go:96-100  the steps of one Write call, from Lock to
\* the deferred Unlock
WriteStep(c) ==
    \/ WriteLock(c)
    \/ SinkWriteByte(c) \/ SinkWriteFail(c) \/ FlushWriteFlush(c)
    \/ WriteReturn(c)

\* conn.go:42-46  the steps of one Read call, from Lock to the deferred Unlock
ReadStep(c) ==
    \/ ReadLock(c)
    \/ (\E n \in 1..MaxLen : BodyReadData(c, n)) \/ BodyReadEOF(c)
    \/ ReadReturn(c)

\* Every call that can take a step eventually takes one: a goroutine waiting in
\* Lock gets the guard once it stays free (the calls are finitely many, so weak
\* fairness is enough), every call of the underlying streams eventually
\* returns, and a goroutine whose underlying call has returned runs its
\* deferred Unlock
CallFairness == \A c \in Calls : WF_vars(WriteStep(c) \/ ReadStep(c))

FairSpec == Init /\ [][Next]_vars /\ CallFairness

\* C16: Read and Write release their guard on every exit path. A guard is held
\* exactly while a call of its direction is between Lock and its return, so
\* none is held when no such call is in flight, whatever the calls that
\* returned have returned (data, error, end-of-stream). And provided every
\* underlying stream call eventually returns, every Read or Write that is
\* waiting for its guard eventually returns, and it leaves the wait only by
\* taking the guard.
C16_GuardsReleased ==
    /\ [](rLock <=> InRead # {})
    /\ [](wLock <=> InWrite # {})
    /\ [][\A c \in Calls :
              /\ (pc[c] = "rLock" /\ pc'[c] # "rLock") => (pc'[c] = "rRead" /\ rLock')
              /\ (pc[c] = "wLock" /\ pc'[c] # "wLock") => (pc'[c] = "wWrite" /\ wLock')]_vars
    /\ \A c \in Calls : (pc[c] \in {"rLock", "wLock"}) ~> (pc[c] = "done")

\* C16 witness: a Read has returned end-of-stream, the read guard was released,
\* and a later Read has taken it and is inside the underlying read
C16_Witness ==
    \E c, d \in Calls :
        /\ c < d
        /\ kind[c] = "Read" /\ pc[c] = "done" /\ ret[c].err = "EOF"
        /\ kind[d] = "Read" /\ pc[d] = "rRead"
        /\ rLock

\* positions of call c's events of kind op in the sink's log
SinkEvents(c, o) == {i \in 1..Len(sinkLog) : sinkLog[i].by = c /\ sinkLog[i].op = o}

\* number of bytes the sink has accepted from call c
SinkAccepted(c) == Cardinality({i \in 1..Len(SinkBytes) : SinkBytes[i][1] = c})

\* C17: every Write call makes exactly one underlying write, followed directly
\* by exactly one flush, the flush being made also when the underlying write
\* returned an error; before it holds the guard it has made neither, and inside
\* the underlying write it has made the write and no flush. A Write that has
\* returned returned the number of bytes the sink accepted from it and the
\* sink's error or nil. A Read that has returned returned the count and the
\* error (nil or end-of-stream) of the underlying read, and the bytes it was
\* given are the ones the body held at that position.
C17_ExactDelegation ==
    /\ \A c \in Calls : kind[c] = "Write" =>
          /\ pc[c] \in {"new", "wLock"} =>
                (SinkEvents(c, "write") = {} /\ SinkEvents(c, "flush") = {})
          /\ pc[c] = "wWrite" =>
                (Cardinality(SinkEvents(c, "write")) = 1 /\ SinkEvents(c, "flush") = {})
          /\ pc[c] \in {"wRet", "done"} =>
                /\ Cardinality(SinkEvents(c, "write")) = 1
                /\ Cardinality(SinkEvents(c, "flush")) = 1
                /\ \A i \in SinkEvents(c, "write") : SinkEvents(c, "flush") = {i + 1}
          /\ pc[c] = "done" =>
                ret[c] = [op |-> "Write", n |-> SinkAccepted(c),
                          err |-> IF werr[c] THEN "sinkError" ELSE "nil"]
    /\ \A c \in Calls : (kind[c] = "Read" /\ pc[c] = "done") =>
          /\ ret[c] = [op |-> "Read", n |-> rd[c].n, err |-> rd[c].err]
          /\ ret[c].err \in {"nil", "EOF"}
          /\ rd[c].from + rd[c].n <= Len(delivered)
    /\ \A c \in Calls : kind[c] # "Write" =>
          (SinkEvents(c, "write") = {} /\ SinkEvents(c, "flush") = {})

\* C17 witness: a two-byte Write has returned with one byte written and the
\* sink's error, after its one write and its one flush; a Read has returned
\* end-of-stream with no byte
C17_Witness ==
    \E c, d \in Calls :
        /\ kind[c] = "Write" /\ pc[c] = "done"
        /\ Len(wdata[c]) = 2
        /\ ret[c] = [op |-> "Write", n |-> 1, err |-> "sinkError"]
        /\ Cardinality(SinkEvents(c, "flush")) = 1
        /\ kind[d] = "Read" /\ pc[d] = "done"
        /\ ret[d] = [op |-> "Read", n |-> 0, err |-> "EOF"]

\* the calls invoked after a Close was invoked
AfterClose == {d \in Calls : \E c \in Calls : c < d /\ kind[c] = "Close"}

\* C18 as stated: every Read or Write invoked after Close has been called
\* returns an error
C18_ErrorAfterClose ==
    \A d \in AfterClose :
        (kind[d] \in {"Read", "Write"} /\ pc[d] = "done") => ret[d].err # "nil"

\* C18 amended: a Read or Write invoked after Close is not rejected by the
\* Connection: it can be invoked, it takes its guard as soon as the guard is
\* free, it makes its one call of the underlying stream, and what it returns
\* is what that call returned, which on the server side may be success.
C18_NoClosedCheck ==
    /\ \A d \in Calls : (closeCalls >= 1 /\ IsNext(d)) =>
          /\ ENABLED ReadCall(d)
          /\ \A n \in 0..MaxLen : ENABLED WriteCall(d, n)
    /\ \A d \in AfterClose :
          /\ (pc[d] = "wLock" /\ ~wLock) => ENABLED WriteLock(d)
          /\ (pc[d] = "rLock" /\ ~rLock) => ENABLED ReadLock(d)
          /\ (kind[d] = "Write" /\ pc[d] = "done") =>
                /\ Cardinality(SinkEvents(d, "write")) = 1
                /\ ret[d] = [op |-> "Write", n |-> SinkAccepted(d),
                             err |-> IF werr[d] THEN "sinkError" ELSE "nil"]
          /\ (kind[d] = "Read" /\ pc[d] = "done") =>
                ret[d] = [op |-> "Read", n |-> rd[d].n, err |-> rd[d].err]

\* C18 witness: after a Close has returned, a later two-byte Write has written
\* and flushed both bytes to the peer and returned no error
C18_Witness ==
    \E c, d \in Calls :
        /\ c < d
        /\ kind[c] = "Close" /\ pc[c] = "done"
        /\ kind[d] = "Write" /\ pc[d] = "done"
        /\ ret[d] = [op |-> "Write", n |-> 2, err |-> "nil"]
        /\ wire = wdata[d]
        /\ childCancelled

\* C19: the lifetime context is a child of the request's context. In every
\* state where the child exists and the parent is cancelled the child is
\* cancelled, whether or not a Close has run its cancel. With the parent
\* cancelled a Close can still take both its steps, and its close step invokes
\* the write side's Close once more and returns that call's result.
C19_ParentCancelReachesChild ==
    /\ []((childDerived /\ parentCancelled) => childCancelled)
    /\ [](\A c \in Calls : parentCancelled =>
            /\ pc[c] = "cCancel" => ENABLED CloseCancel(c)
            /\ pc[c] = "cClose" => ENABLED CloseWC(c))
    /\ [][\A c \in Calls : (parentCancelled /\ pc[c] = "cClose" /\ pc'[c] = "done") =>
              /\ closeCalls' = closeCalls + 1
              /\ ret'[c] = [op |-> "Close", n |-> 0, err |-> flushWriteClose]]_vars

\* C19 witness: Accept has returned the Connection, the parent has been
\* cancelled and the lifetime context is cancelled although no Close has run
\* its cancel; a Close has been invoked and is about to run
C19_Witness ==
    /\ retConn
    /\ parentCancelled
    /\ childCancelled
    /\ cancelCalls = 0 /\ closeCalls = 0
    /\ \E c \in Calls : kind[c] = "Close" /\ pc[c] = "cCancel"

\* a step of some Close call: its invocation, its cancel or its close
CloseStepTaken ==
    \/ cancelCalls' # cancelCalls
    \/ closeCalls' # closeCalls
    \/ \E c \in Calls : kind[c] # "Close" /\ kind'[c] = "Close"

\* C20: server-side Close changes nothing but the Connection's own lifetime
\* context. No step of a Close writes to, flushes or closes the sink or reads
\* the body, none cancels the parent context or changes which context the
\* request carries, none changes the addresses or either guard or the progress
\* of another call; the only calls on the sink are the Accept's and the
\* Writes'.
C20_CloseFrame ==
    /\ [][CloseStepTaken =>
              /\ UNCHANGED <<sinkVars, bodyVars, reqVars, acceptVars>>
              /\ UNCHANGED <<parentCancelled, reqCtx, childDerived>>
              /\ UNCHANGED <<ca, wLock, rLock>>
              /\ LocalAddr' = LocalAddr /\ RemoteAddr' = RemoteAddr
              /\ \A d \in Calls : kind[d] \in {"Read", "Write"} =>
                    (pc'[d] = pc[d] /\ ret'[d] = ret[d])]_vars
    /\ [](\A i \in 1..Len(sinkLog) :
            /\ sinkLog[i].op \in {"header", "write", "flush"}
            /\ sinkLog[i].by # 0 => kind[sinkLog[i].by] = "Write")

\* C20 witness: a Close has returned; the context is cancelled, the parent is
\* not, the sink has seen only the Accept's status and flush, both guards are
\* free and the addresses are the ones Accept resolved
C20_Witness ==
    /\ \E c \in Calls : kind[c] = "Close" /\ pc[c] = "done"
    /\ childCancelled /\ ~parentCancelled
    /\ Len(sinkLog) = 2 /\ SinkBytes = <<>>
    /\ ~wLock /\ ~rLock
    /\ ca = addrs /\ ca # NoConAddr
    /\ reqCtx = "child"
====
